---- MODULE Spec2Model ----
(***************************************************************************)
(* The post controller of nodejs-mongoose-tutorial (posts.ctrl.js, the     *)
(* final revision: src/unnamed/part_002) over the Post model               *)
(* (src/src/models/post.js).                                               *)
(*                                                                         *)
(* Text is a sequence of one-character strings, a JavaScript value is a    *)
(* tagged record, a JavaScript object is a record whose DOMAIN is the set  *)
(* of its keys.  The store is the set of the documents of the collection.  *)
(***************************************************************************)
EXTENDS Integers, Sequences, FiniteSets, TLC

\* ------------------------------------------------------------- bounds
\* Requests served in one behaviour.
MaxRequests == 3

\* ---------------------------------------------------- program constants
\* .limit(10), (page - 1) * 10, postCount / 10
PageSize == 10
\* post.body.length < 200, slice(0, 200)
BodyLimit == 200
\* An ObjectId prints as 24 hexadecimal digits, or is built from 12 bytes.
HexLen == 24
ByteLen == 12

\* -------------------------------------------------------- text and values
Rep(c, n) == [i \in 1..n |-> c]

HexDigits == <<"0", "1", "2", "3", "4", "5", "6", "7", "8", "9", "a", "b", "c", "d", "e", "f">>
HexChars == {HexDigits[i] : i \in 1..16}
HexVal(c) == (CHOOSE i \in 1..16 : HexDigits[i] = c) - 1

Undefined == [type |-> "undefined"]
Null == [type |-> "null"]
Str(s) == [type |-> "string", chars |-> s]
Num(n) == [type |-> "number", num |-> n]
Arr(a) == [type |-> "array", items |-> a]
Get(obj, k) == IF k \in DOMAIN obj THEN obj[k] ELSE Undefined

\* ---------------------------------------------------------- ObjectId
\* The ObjectId the driver generates from its counter n, as hexadecimal text.
ObjId(n) ==
    [i \in 1..HexLen |->
        IF i = HexLen THEN HexDigits[(n % 16) + 1]
        ELSE IF i = HexLen - 1 THEN HexDigits[((n \div 16) % 16) + 1]
        ELSE "0"]

\* ObjectId.isValid on a path parameter (a string): 12 bytes, or 24 hex digits.
isValid(id) ==
    \/ Len(id) = ByteLen
    \/ Len(id) = HexLen /\ \A i \in 1..HexLen : id[i] \in HexChars

\* The two hexadecimal digits of a character's code.
CharCodeHex(c) ==
    CASE c \in {HexDigits[i] : i \in 1..10} -> <<"3", c>>
      [] c \in {HexDigits[i] : i \in 11..16} -> <<"6", HexDigits[HexVal(c) - 8]>>
      [] c = "x" -> <<"7", "8">>
      [] c = "z" -> <<"7", "a">>
      [] OTHER -> <<"3", "f">>

\* The ObjectId a valid path parameter is cast to, as hexadecimal text.
CastId(id) ==
    IF Len(id) = HexLen THEN id
    ELSE [i \in 1..HexLen |-> CharCodeHex(id[(i + 1) \div 2])[2 - (i % 2)]]

\* a < b in the order of { _id: 1 }: ObjectIds compare bytewise.
IdLess(a, b) ==
    LET diff == {i \in 1..HexLen : a[i] # b[i]}
    IN  /\ diff # {}
        /\ LET i == CHOOSE k \in diff : \A j \in diff : k <= j
           IN  HexVal(a[i]) < HexVal(b[i])

\* ------------------------------------------------------------ state
VARIABLES
    store,         \* the documents of the posts collection
    nextObjectId,  \* the counter of the ObjectId generator
    ctx,           \* the request and response of the request served last
    pending,       \* the list request that awaits its second query, if any
    nreq,          \* requests received so far; also the clock (Date.now)
    pre,           \* history: the store before the request in ctx touched it
    everIds,       \* history: every _id a document had before the request in ctx
    removed,       \* history: <<id, had>> for every ObjectId id a remove has answered
                   \* 204 for; had: a post had or had had that id then
    atFind         \* history: the store when the list in ctx ran its find

vars == <<store, nextObjectId, ctx, pending, nreq, pre, everIds, removed, atFind>>

\* ------------------------------------------------------------ Post model
\* The paths of PostSchema (with the _id every schema gets).
SchemaPaths == {"_id", "title", "body", "tags", "publishedData"}

RECURSIVE Decimal(_)
\* String(n) of a number n >= 0.
Decimal(n) ==
    IF n < 10 THEN <<HexDigits[n + 1]>>
    ELSE Decimal(n \div 10) \o <<HexDigits[(n % 10) + 1]>>

\* The cast of a value to a String path: a number becomes its text.
CastText(v) == IF v.type = "string" THEN v.chars ELSE Decimal(v.num)

\* The cast of a value to a [String] path: a value that is no array is
\* taken as the array of itself.
CastTags(v) ==
    LET items == IF v.type = "array" THEN v.items ELSE <<v>>
    IN  [i \in 1..Len(items) |-> CastText(items[i])]

\* The stored form of the value v given for path k.
CastPath(k, v) ==
    CASE k \in {"title", "body"} -> CastText(v)
      [] k = "tags" -> CastTags(v)
      [] OTHER -> v.num

CastableText(v) == v.type \in {"string", "number"}

\* Whether every value o gives for a path of the schema casts to its type.
Castable(o) ==
    /\ \A k \in {"title", "body"} \cap DOMAIN o : CastableText(o[k])
    /\ "tags" \in DOMAIN o =>
         IF o.tags.type = "array"
         THEN \A i \in 1..Len(o.tags.items) : CastableText(o.tags.items[i])
         ELSE CastableText(o.tags)
    /\ "publishedData" \in DOMAIN o => o.publishedData.type = "number"

\* A document of the paths of PostSchema; title and body are the set of the
\* value the document has for the path, empty when it has none.
Doc(id, title, body, tags, publishedData) ==
    CASE title # {} /\ body # {} ->
           [_id |-> id, title |-> CHOOSE t \in title : TRUE,
            body |-> CHOOSE b \in body : TRUE, tags |-> tags,
            publishedData |-> publishedData]
      [] title # {} /\ body = {} ->
           [_id |-> id, title |-> CHOOSE t \in title : TRUE, tags |-> tags,
            publishedData |-> publishedData]
      [] title = {} /\ body # {} ->
           [_id |-> id, body |-> CHOOSE b \in body : TRUE, tags |-> tags,
            publishedData |-> publishedData]
      [] OTHER -> [_id |-> id, tags |-> tags, publishedData |-> publishedData]

\* new Post(o), its _id the n-th ObjectId, at time t: the paths o gives,
\* cast; tags defaults to [], publishedData to Date.now().
NewPost(o, n, t) ==
    Doc(ObjId(n),
        {CastText(o[k]) : k \in {"title"} \cap DOMAIN o},
        {CastText(o[k]) : k \in {"body"} \cap DOMAIN o},
        IF "tags" \in DOMAIN o THEN CastTags(o.tags) ELSE <<>>,
        t)

StoreFailure == [path |-> "", type |-> "MongoError"]
CastError == [path |-> "_id", type |-> "CastError"]
ValidationError == [path |-> "", type |-> "ValidationError"]
NoError == Undefined

\* post.save() of new Post(o) on the collection st: the document is cast
\* and inserted; _id is unique in a collection.
save(o, post, st, fail) ==
    IF ~Castable(o) THEN [err |-> ValidationError, store |-> st]
    ELSE IF fail \/ \E d \in st : d._id = post._id
    THEN [err |-> StoreFailure, store |-> st]
    ELSE [err |-> NoError, store |-> st \cup {post}]

RECURSIVE InsertDesc(_, _)
\* sorted, the greatest _id first, with d at its place.
InsertDesc(d, sorted) ==
    IF sorted = <<>> THEN <<d>>
    ELSE IF IdLess(Head(sorted)._id, d._id) THEN <<d>> \o sorted
    ELSE <<Head(sorted)>> \o InsertDesc(d, Tail(sorted))

RECURSIVE SortDesc(_)
\* sort({ _id: -1 }): the documents docs, the greatest _id first.
SortDesc(docs) ==
    IF docs = {} THEN <<>>
    ELSE LET d == CHOOSE x \in docs : TRUE
         IN  InsertDesc(d, SortDesc(docs \ {d}))

Min2(a, b) == IF a < b THEN a ELSE b

\* Post.find().sort({ _id: -1 }).limit(limit).skip(skip).exec()
find(st, limit, skip, fail) ==
    IF fail THEN [err |-> StoreFailure, docs |-> <<>>]
    ELSE LET all == SortDesc(st)
         IN  [err |-> NoError,
              docs |-> SubSeq(all, skip + 1, Min2(skip + limit, Len(all)))]

\* Post.countDocuments().exec()
countDocuments(st, fail) ==
    IF fail THEN [err |-> StoreFailure, n |-> 0]
    ELSE [err |-> NoError, n |-> Cardinality(st)]

\* The documents of st whose _id is the ObjectId of id.
Matching(st, id) == LET oid == CastId(id) IN {d \in st : d._id = oid}

\* Post.findById(id).exec(): a CastError when id is no ObjectId.
findById(st, id, fail) ==
    IF ~isValid(id) THEN [err |-> CastError, doc |-> Null]
    ELSE IF fail THEN [err |-> StoreFailure, doc |-> Null]
    ELSE IF Matching(st, id) = {} THEN [err |-> NoError, doc |-> Null]
    ELSE [err |-> NoError, doc |-> CHOOSE d \in Matching(st, id) : TRUE]

\* Post.findByIdAndRemove(id).exec()
findByIdAndRemove(st, id, fail) ==
    IF ~isValid(id) THEN [err |-> CastError, store |-> st]
    ELSE IF fail THEN [err |-> StoreFailure, store |-> st]
    ELSE [err |-> NoError, store |-> st \ Matching(st, id)]

\* The value of path k after the update: the one the update names, cast,
\* or else the one d has, if any.
Updated(d, update, k) ==
    IF k \in DOMAIN update THEN {CastPath(k, update[k])}
    ELSE IF k \in DOMAIN d THEN {d[k]} ELSE {}

\* Faulty variant of Apply: the document replaced, not its named paths.
ApplyAll(d, update) ==
    Doc(d._id,
        {CastPath(k, update[k]) : k \in {"title"} \cap DOMAIN update},
        {CastPath(k, update[k]) : k \in {"body"} \cap DOMAIN update},
        IF "tags" \in DOMAIN update THEN CastPath("tags", update.tags) ELSE <<>>,
        IF "publishedData" \in DOMAIN update
        THEN CastPath("publishedData", update.publishedData) ELSE 0)

\* $set of the paths the update names (strict mode drops what is no path).
Apply(d, update) ==
    Doc(d._id,
        Updated(d, update, "title"),
        Updated(d, update, "body"),
        CHOOSE v \in Updated(d, update, "tags") : TRUE,
        CHOOSE v \in Updated(d, update, "publishedData") : TRUE)

\* Faulty variant of findByIdAndUpdate: with { upsert: true }.
findByIdAndUpdateUpsert(st, id, update, fail) ==
    IF ~isValid(id) THEN [err |-> CastError, doc |-> Null, store |-> st]
    ELSE IF fail \/ ~Castable(update) \/ "_id" \in DOMAIN update
    THEN [err |-> StoreFailure, doc |-> Null, store |-> st]
    ELSE LET old == IF Matching(st, id) = {}
                    THEN [_id |-> CastId(id), tags |-> <<>>, publishedData |-> 0]
                    ELSE CHOOSE d \in Matching(st, id) : TRUE
             new == Apply(old, update)
         IN  [err |-> NoError, doc |-> new, store |-> (st \ {old}) \cup {new}]

\* Post.findByIdAndUpdate(id, update, { new: true }).exec(): the update is
\* cast, there is no upsert, and _id is immutable.
findByIdAndUpdate(st, id, update, fail) ==
    IF ~isValid(id) THEN [err |-> CastError, doc |-> Null, store |-> st]
    ELSE IF fail \/ ~Castable(update) \/ "_id" \in DOMAIN update
    THEN [err |-> StoreFailure, doc |-> Null, store |-> st]
    ELSE IF Matching(st, id) = {} THEN [err |-> NoError, doc |-> Null, store |-> st]
    ELSE LET old == CHOOSE d \in Matching(st, id) : TRUE
             new == Apply(old, update)
         IN  [err |-> NoError, doc |-> new, store |-> (st \ {old}) \cup {new}]

\* ------------------------------------------------------------------ Joi
\* Joi.string(): a string, and not the empty one.
JoiString(v) ==
    IF v.type # "string" THEN "string.base"
    ELSE IF v.chars = <<>> THEN "string.empty"
    ELSE "ok"

\* Joi.array().items(Joi.string())
JoiArrayOfString(v) ==
    IF v.type # "array" THEN "array.base"
    ELSE IF \E i \in 1..Len(v.items) : v.items[i] = Undefined THEN "array.sparse"
    ELSE LET bad == {i \in 1..Len(v.items) : JoiString(v.items[i]) # "ok"}
         IN  IF bad = {} THEN "ok"
             ELSE JoiString(v.items[CHOOSE i \in bad : \A j \in bad : i <= j])

JoiKey(rule, v) ==
    IF v = Undefined THEN (IF rule.required THEN "any.required" ELSE "ok")
    ELSE IF rule.type = "string" THEN JoiString(v)
    ELSE JoiArrayOfString(v)

\* schema.validate(value) of Joi.object().keys(...): the first error (the
\* keys in schema order, then a key the schema does not name), or none.
validate(schema, value) ==
    LET bad == {i \in 1..Len(schema) :
                    JoiKey(schema[i], Get(value, schema[i].key)) # "ok"}
        unknown == DOMAIN value \ {schema[i].key : i \in 1..Len(schema)}
    IN  IF bad # {}
        THEN LET i == CHOOSE i \in bad : \A j \in bad : i <= j
             IN  [error |-> [path |-> schema[i].key,
                             type |-> JoiKey(schema[i], Get(value, schema[i].key))]]
        ELSE IF unknown # {}
        THEN [error |-> [path |-> CHOOSE k \in unknown : TRUE, type |-> "object.unknown"]]
        ELSE [error |-> NoError]

\* Faulty variant of write's schema: required() left out.
WriteSchemaOptional ==
    << [key |-> "title", type |-> "string", required |-> FALSE],
       [key |-> "body", type |-> "string", required |-> FALSE],
       [key |-> "tags", type |-> "array", required |-> FALSE] >>

\* update's schema: write's without required().
UpdateSchema ==
    << [key |-> "title", type |-> "string", required |-> FALSE],
       [key |-> "body", type |-> "string", required |-> FALSE],
       [key |-> "tags", type |-> "array", required |-> FALSE] >>

\* write's schema.
WriteSchema ==
    << [key |-> "title", type |-> "string", required |-> TRUE],
       [key |-> "body", type |-> "string", required |-> TRUE],
       [key |-> "tags", type |-> "array", required |-> TRUE] >>

\* ------------------------------------------------------------- Koa context
EmptyObj == [k \in {} |-> Undefined]
NoBody == [kind |-> "none"]
PostBody(d) == [kind |-> "post", post |-> d]
PostsBody(ds) == [kind |-> "posts", posts |-> ds]
ErrorBody(e) == [kind |-> "error", error |-> e]

\* The context of a request as the router hands it over: Koa answers 404
\* until a status or a body is set.
Request(op, id, guarded, reqBody, page) ==
    [op |-> op, id |-> id, guarded |-> guarded, reqBody |-> reqBody, page |-> page,
     now |-> nreq + 1, status |-> 404, body |-> NoBody, headers |-> EmptyObj,
     handlerRuns |-> 0, storeCalls |-> 0, storeError |-> NoError]

\* ctx.status = n
SetStatus(c, n) == [c EXCEPT !.status = n]
\* ctx.body = b: the status becomes 200 unless one was set.
SetBody(c, b) == [c EXCEPT !.body = b, !.status = 200]
\* ctx.throw(500, e)
Throw(c, e) == [c EXCEPT !.status = 500, !.body = ErrorBody(e)]
\* A store call made by the handler, and the error it raised.
Called(c, err) == [c EXCEPT !.storeCalls = @ + 1, !.storeError = err]
Entered(c) == [c EXCEPT !.handlerRuns = @ + 1]

Result(c, st, n) == [ctx |-> c, store |-> st, nextObjectId |-> n]

\* ---------------------------------------------------------------- handlers
\* Handlers map the context c of a request, the collection st and the
\* ObjectId counter n to the response and what they leave of st and n; fail
\* tells that the store call raises.
\* Faulty variant of checkObjectId: every id passes.
checkObjectIdOpen(c, st, n, next) == next

\* checkObjectId(ctx, next)
checkObjectId(c, st, n, next) ==
    IF ~isValid(c.id)
    THEN Result(SetStatus(c, 400), st, n)
    ELSE next

\* write(ctx)
write(c, st, n, fail) ==
    LET c0 == Entered(c)
        validation == validate(WriteSchema, c.reqBody)
    IN  IF validation.error # NoError
        THEN Result([SetStatus(c0, 400) EXCEPT !.body = ErrorBody(validation.error)],
                    st, n)
        ELSE LET post == NewPost(c.reqBody, n, c.now)
                 r == save(c.reqBody, post, st, fail)
                 c1 == Called(c0, r.err)
             IN  IF r.err # NoError
                 THEN Result(Throw(c1, r.err), st, n + 1)
                 ELSE Result(SetBody(c1, PostBody(post)), r.store, n + 1)

\* Faulty variant of read: the body cut as list cuts it.
readShortened(c, st, n, fail) ==
    LET c0 == Entered(c)
        r == findById(st, c.id, fail)
        c1 == Called(c0, r.err)
    IN  IF r.err # NoError THEN Result(Throw(c1, r.err), st, n)
        ELSE IF r.doc = Null THEN Result(SetStatus(c1, 404), st, n)
        ELSE Result(SetBody(c1, PostBody([r.doc EXCEPT !.body = SubSeq(@, 1, Min2(Len(@), BodyLimit))])),
                    st, n)

\* read(ctx)
read(c, st, n, fail) ==
    LET c0 == Entered(c)
        r == findById(st, c.id, fail)
        c1 == Called(c0, r.err)
    IN  IF r.err # NoError THEN Result(Throw(c1, r.err), st, n)
        ELSE IF r.doc = Null THEN Result(SetStatus(c1, 404), st, n)
        ELSE Result(SetBody(c1, PostBody(r.doc)), st, n)

\* remove(ctx)
remove(c, st, n, fail) ==
    LET c0 == Entered(c)
        r == findByIdAndRemove(st, c.id, fail)
        c1 == Called(c0, r.err)
    IN  IF r.err # NoError THEN Result(Throw(c1, r.err), st, n)
        ELSE Result(SetStatus(c1, 204), r.store, n)

\* Faulty variant of update: no answer of its own when no post is found
\* (ctx.body = null makes Koa answer 204).
updateUnchecked(c, st, n, fail) ==
    LET c0 == Entered(c)
        validation == validate(UpdateSchema, c.reqBody)
    IN  IF validation.error # NoError
        THEN Result([SetStatus(c0, 400) EXCEPT !.body = ErrorBody(validation.error)],
                    st, n)
        ELSE LET r == findByIdAndUpdate(st, c.id, c.reqBody, fail)
                 c1 == Called(c0, r.err)
             IN  IF r.err # NoError THEN Result(Throw(c1, r.err), st, n)
                 ELSE IF r.doc = Null THEN Result(SetStatus(c1, 204), st, n)
                 ELSE Result(SetBody(c1, PostBody(r.doc)), r.store, n)

\* update(ctx)
update(c, st, n, fail) ==
    LET c0 == Entered(c)
        validation == validate(UpdateSchema, c.reqBody)
    IN  IF validation.error # NoError
        THEN Result([SetStatus(c0, 400) EXCEPT !.body = ErrorBody(validation.error)],
                    st, n)
        ELSE LET r == findByIdAndUpdate(st, c.id, c.reqBody, fail)
                 c1 == Called(c0, r.err)
             IN  IF r.err # NoError THEN Result(Throw(c1, r.err), st, n)
                 ELSE IF r.doc = Null THEN Result(SetStatus(c1, 404), st, n)
                 ELSE Result(SetBody(c1, PostBody(r.doc)), r.store, n)

\* ------------------------------------------------------------------- list
DigitVal(ch) == HexVal(ch)
IsDigit(ch) == ch \in {HexDigits[i] : i \in 1..10}

RECURSIVE Digits(_, _)
\* The value of the leading decimal digits of s, after the value acc.
Digits(s, acc) ==
    IF s = <<>> \/ ~IsDigit(Head(s)) THEN acc
    ELSE Digits(Tail(s), 10 * acc + DigitVal(Head(s)))

\* parseInt(s, 10) of a text that starts with a sign and a digit, or a digit.
parseInt(s) ==
    IF Head(s) = "-" THEN 0 - Digits(Tail(s), 0) ELSE Digits(s, 0)

\* v || '1'
OrOne(v) == IF v = Undefined \/ v.chars = <<>> THEN <<"1">> ELSE v.chars

\* Math.ceil(n / d)
Ceil(n, d) == (n \div d) + (IF n % d = 0 THEN 0 ELSE 1)

\* post.body.length < 200 ? post.body : `${post.body.slice(0, 200)}...`
Truncate(body) ==
    IF Len(body) < BodyLimit THEN body
    ELSE SubSeq(body, 1, BodyLimit) \o <<".", ".", ".">>

\* posts.map(post => post.toJSON()).map(post => ({ ...post, body: ... }))
Shorten(posts) ==
    [i \in 1..Len(posts) |-> [posts[i] EXCEPT !.body = Truncate(posts[i].body)]]

\* Faulty variant of Skip: page * 10.
SkipOfPage(page) == page * PageSize

\* (page - 1) * 10
Skip(page) == (page - 1) * PageSize

\* list(ctx) up to the answer of its first query, find. posts is what find
\* returned; done tells that the response is complete.
listFind(c, st, fail) ==
    LET c0 == Entered(c)
        page == parseInt(OrOne(c.page))
    IN  IF page < 1
        THEN [done |-> TRUE, ctx |-> SetStatus(c0, 400), posts |-> <<>>]
        ELSE LET r == find(st, PageSize, Skip(page), fail)
                 c1 == Called(c0, r.err)
             IN  IF r.err # NoError
                 THEN [done |-> TRUE, ctx |-> Throw(c1, r.err), posts |-> <<>>]
                 ELSE [done |-> FALSE, ctx |-> c1, posts |-> r.docs]

\* Faulty variant of listCount: Last-Page from the posts of the page.
listCountOfPage(c, posts, st, fail) ==
    LET r == countDocuments(st, fail)
        c1 == Called(c, r.err)
    IN  IF r.err # NoError THEN Throw(c1, r.err)
        ELSE SetBody([c1 EXCEPT !.headers = [LastPage |-> Ceil(Len(posts), PageSize)]],
                     PostsBody(Shorten(posts)))

\* list(ctx) from the answer of its second query, countDocuments.
listCount(c, posts, st, fail) ==
    LET r == countDocuments(st, fail)
        c1 == Called(c, r.err)
    IN  IF r.err # NoError THEN Throw(c1, r.err)
        ELSE SetBody([c1 EXCEPT !.headers = [LastPage |-> Ceil(r.n, PageSize)]],
                     PostsBody(Shorten(posts)))

\* ------------------------------------------------------------------ inputs
Short == <<"B">>
Body200 == Rep("a", BodyLimit)
Body201 == Rep("a", BodyLimit + 1)
TagsXY == Arr(<<Str(<<"x">>), Str(<<"y">>)>>)

ValidWriteBodies ==
    { [title |-> Str(<<"T">>), body |-> Str(Short), tags |-> TagsXY],
      [title |-> Str(<<"N">>), body |-> Str(Body200), tags |-> Arr(<<>>)] }

\* title, body or tags missing; title or body no text; tags no array, or
\* not of text; the empty title.
InvalidWriteBodies ==
    { [body |-> Str(Short), tags |-> TagsXY],
      [title |-> Str(<<"T">>), tags |-> TagsXY],
      [title |-> Str(<<"T">>), body |-> Str(Short)],
      [title |-> Num(7), body |-> Str(Short), tags |-> TagsXY],
      [title |-> Str(<<"T">>), body |-> Arr(<<>>), tags |-> TagsXY],
      [title |-> Str(<<"T">>), body |-> Str(Short), tags |-> Str(<<"x">>)],
      [title |-> Str(<<"T">>), body |-> Str(Short), tags |-> Arr(<<Str(<<"x">>), Num(7)>>)],
      [title |-> Str(<<>>), body |-> Str(Short), tags |-> TagsXY] }

WriteBodies == ValidWriteBodies \cup InvalidWriteBodies

ValidUpdateBodies ==
    { EmptyObj,
      [title |-> Str(<<"N">>)],
      [body |-> Str(Body201), tags |-> Arr(<<Str(<<"y">>)>>)] }

\* A title that is no text; a key the schema does not name.
InvalidUpdateBodies ==
    { [title |-> Num(7)],
      [publishedData |-> Num(5)] }

UpdateBodies == ValidUpdateBodies \cup InvalidUpdateBodies

\* Path parameters: the first ObjectId a post gets, twelve bytes, and a text
\* that is no ObjectId.
PathIds == { ObjId(1), Rep("z", ByteLen), <<"a", "b", "c">> }

\* ctx.query.page: absent, or the text of an integer.
Pages ==
    { Undefined, Str(<<"0">>), Str(<<"-", "1">>), Str(<<"1">>), Str(<<"2">>), Str(<<"3">>) }

\* ------------------------------------------------------------- behaviour
\* A post of the collection the server finds when it starts.
SeedPost(k) ==
    [_id |-> ObjId(k), title |-> <<"T">>, body |-> Short, tags |-> <<>>,
     publishedData |-> 0]

Idle == [pc |-> "idle"]

\* The server starts on a collection of n posts.
InitWith(n) ==
    /\ store = {SeedPost(k) : k \in 1..n}
    /\ nextObjectId = n + 1
    /\ nreq = 0
    /\ ctx = Request("none", <<>>, FALSE, EmptyObj, Undefined)
    /\ pending = Idle
    /\ pre = {SeedPost(k) : k \in 1..n}
    /\ everIds = {}
    /\ removed = {}
    /\ atFind = {}

Init == \E n \in {0, 1} : InitWith(n)

\* The response r.ctx is sent and the effects of the request are in place.
Serve(r) ==
    /\ store' = r.store
    /\ nextObjectId' = r.nextObjectId
    /\ ctx' = r.ctx
    /\ nreq' = nreq + 1
    /\ pre' = store
    /\ everIds' = everIds \cup {d._id : d \in store}
    /\ removed' = IF r.ctx.op = "remove" /\ r.ctx.status = 204
                  THEN LET oid == CastId(r.ctx.id)
                       IN  removed \cup {<<oid, oid \in everIds \cup {d._id : d \in store}>>}
                  ELSE removed
    /\ atFind' = {}
    /\ UNCHANGED pending

\* A route with the guard in front of its handler, or without.
Route(guarded, c, next) ==
    IF guarded THEN checkObjectId(c, store, nextObjectId, next) ELSE next

WriteOf(bodies, fails) ==
    /\ nreq < MaxRequests
    /\ \E b \in bodies, fail \in fails :
        Serve(write(Request("write", <<>>, FALSE, b, Undefined), store, nextObjectId, fail))

ReadOf(ids, modes) ==
    /\ nreq < MaxRequests
    /\ \E id \in ids, m \in modes :
        LET guarded == m[1]
            fail == m[2]
            c == Request("read", id, guarded, EmptyObj, Undefined)
        IN  Serve(Route(guarded, c, read(c, store, nextObjectId, fail)))

RemoveOf(ids, modes) ==
    /\ nreq < MaxRequests
    /\ \E id \in ids, m \in modes :
        LET guarded == m[1]
            fail == m[2]
            c == Request("remove", id, guarded, EmptyObj, Undefined)
        IN  Serve(Route(guarded, c, remove(c, store, nextObjectId, fail)))

UpdateOf(ids, bodies, modes) ==
    /\ nreq < MaxRequests
    /\ \E id \in ids, b \in bodies, m \in modes :
        LET guarded == m[1]
            fail == m[2]
            c == Request("update", id, guarded, b, Undefined)
        IN  Serve(Route(guarded, c, update(c, store, nextObjectId, fail)))

WriteReq == WriteOf(WriteBodies, BOOLEAN)
\* <<guarded, fail>>: the route has the guard in front; the store call raises.
Modes == BOOLEAN \X BOOLEAN

ReadReq == ReadOf(PathIds, Modes)
RemoveReq == RemoveOf(PathIds, Modes)
UpdateReq == UpdateOf(PathIds, UpdateBodies, Modes)

\* A list request arrives and runs to the answer of find.
ListFind ==
    /\ nreq < MaxRequests
    /\ pending = Idle
    /\ \E p \in Pages, fail \in BOOLEAN :
        LET r == listFind(Request("list", <<>>, FALSE, EmptyObj, p), store, fail)
        IN  /\ nreq' = nreq + 1
            /\ IF r.done
               THEN /\ ctx' = r.ctx
                    /\ pre' = store
                    /\ atFind' = {}
                    /\ UNCHANGED pending
               ELSE /\ pending' = [pc |-> "count", ctx |-> r.ctx, posts |-> r.posts,
                                   atFind |-> store]
                    /\ UNCHANGED <<ctx, pre, atFind>>
            /\ UNCHANGED <<store, nextObjectId, everIds, removed>>

\* The pending list request gets the answer of countDocuments and responds.
ListCount ==
    /\ pending # Idle
    /\ \E fail \in BOOLEAN :
        /\ ctx' = listCount(pending.ctx, pending.posts, store, fail)
        /\ pre' = store
        /\ atFind' = pending.atFind
        /\ pending' = Idle
        /\ UNCHANGED <<store, nextObjectId, nreq, everIds, removed>>

Next == WriteReq \/ ReadReq \/ RemoveReq \/ UpdateReq \/ ListFind \/ ListCount

Spec == Init /\ [][Next]_vars

\* Pagination: collections around one and two pages, posts written and
\* removed while pages are listed.
InitPaged == \E n \in {PageSize - 1, PageSize, 2 * PageSize} : InitWith(n)

PagedBodies == { [title |-> Str(<<"N">>), body |-> Str(Body201), tags |-> TagsXY] }
\* The oldest post and the last of the first PageSize.
PagedIds == { ObjId(1), ObjId(PageSize) }
NoFailure == { FALSE }
GuardedNoFailure == { <<TRUE, FALSE>> }

WriteOne == WriteOf(PagedBodies, NoFailure)
RemoveOne == RemoveOf(PagedIds, GuardedNoFailure)

NextPaged == WriteOne \/ RemoveOne \/ ListFind \/ ListCount

SpecPaged == InitPaged /\ [][NextPaged]_vars

\* ------------------------------------------------------------------ claims
Ids(docs) == {d._id : d \in docs}
IsText(v) == v.type = "string"
IsTextSeq(v) == v.type = "array" /\ \A i \in 1..Len(v.items) : IsText(v.items[i])

\* title, body or tags is missing, or is not of its type.
Malformed(b) ==
    \/ \E k \in {"title", "body"} : k \notin DOMAIN b \/ ~IsText(b[k])
    \/ "tags" \notin DOMAIN b
    \/ ~IsTextSeq(b.tags)

\* Only title, body and tags, each of its type.
WellTypedPartial(b) ==
    /\ DOMAIN b \subseteq {"title", "body", "tags"}
    /\ \A k \in DOMAIN b \ {"tags"} : IsText(b[k])
    /\ "tags" \in DOMAIN b => IsTextSeq(b.tags)

\* The value a request body gives for k, as a post holds it.
Given(b, k) ==
    IF k = "tags" THEN [i \in 1..Len(b.tags.items) |-> b.tags.items[i].chars]
    ELSE b[k].chars

\* The least k with k * PageSize >= n.
PagesOf(n) == CHOOSE k \in 0..n : k * PageSize >= n /\ (k = 0 \/ (k - 1) * PageSize < n)

\* The page number a list request asks for: 1 when it names none.
PageAsked == IF ctx.page = Undefined THEN 1 ELSE parseInt(ctx.page.chars)

\* The request in ctx as it arrived.
RequestOf(c) ==
    [c EXCEPT !.status = 404, !.body = NoBody, !.headers = EmptyObj,
              !.handlerRuns = 0, !.storeCalls = 0, !.storeError = NoError]

\* What the handler of the route of c produces.
Handler(c, st, n, fail) ==
    CASE c.op = "read" -> read(c, st, n, fail)
      [] c.op = "remove" -> remove(c, st, n, fail)
      [] c.op = "update" -> update(c, st, n, fail)

\* C1: a write whose body misses title, body or tags, or has one of them of
\* the wrong type, is answered 400, and the store is not called and holds
\* what it held.
WriteRejectsMalformed ==
    (ctx.op = "write" /\ Malformed(ctx.reqBody)) =>
        /\ ctx.status = 400
        /\ ctx.storeCalls = 0
        /\ store = pre

\* A write with a number among its tags was answered 400 on a collection
\* that holds posts.
WriteRejectedReached ==
    /\ ctx.op = "write"
    /\ "tags" \in DOMAIN ctx.reqBody
    /\ ctx.reqBody.tags.type = "array"
    /\ Malformed(ctx.reqBody)
    /\ ctx.status = 400
    /\ store # {}

\* C2: behind the guard, a read, update or remove whose id is no ObjectId is
\* answered 400 without the handler running and without a store call; with
\* an ObjectId the handler runs once and the response and the store are what
\* the handler alone produces.
GuardFilters ==
    (ctx.op \in {"read", "update", "remove"} /\ ctx.guarded) =>
        IF ~isValid(ctx.id)
        THEN /\ ctx.status = 400
             /\ ctx.body = NoBody
             /\ ctx.handlerRuns = 0
             /\ ctx.storeCalls = 0
             /\ store = pre
        ELSE /\ ctx.handlerRuns = 1
             /\ \E fail \in BOOLEAN :
                    LET r == Handler(RequestOf(ctx), pre, nextObjectId, fail)
                    IN  r.ctx = ctx /\ r.store = store

\* The guard answered 400 to a remove of "abc" on a collection that holds
\* posts.
GuardRejectedReached ==
    /\ ctx.op = "remove"
    /\ ctx.guarded
    /\ ~isValid(ctx.id)
    /\ ctx.status = 400
    /\ store # {}

\* C3: a write with title and body texts (not empty) and tags a sequence of
\* texts, and no store failure, adds exactly one post, whose id no post has
\* or ever had, and answers with the submitted title, body and tags, an id
\* and a publishedDate that is the time of the request.
CreateReturnsPost ==
    (/\ ctx.op = "write"
     /\ ~Malformed(ctx.reqBody)
     /\ ctx.reqBody.title.chars # <<>>
     /\ ctx.reqBody.body.chars # <<>>
     /\ ctx.storeError = NoError) =>
        /\ ctx.status = 200
        /\ ctx.body.kind = "post"
        /\ LET p == ctx.body.post
           IN  /\ store = pre \cup {p}
               /\ p \notin pre
               /\ p._id # <<>>
               /\ p._id \notin everIds \cup Ids(pre)
               /\ \A k \in {"title", "body", "tags"} : p[k] = Given(ctx.reqBody, k)
               /\ "publishedDate" \in DOMAIN p
               /\ p.publishedDate = ctx.now

\* C4: an update changes, in the post it addresses, the fields its body
\* names and no other; no update, whatever its body and its answer, changes
\* the _id or the publishedData of a post, or adds or drops one; every other
\* post is left as it was.
UpdateChangesOnlyGiven ==
    ctx.op = "update" =>
        /\ {<<d._id, d.publishedData>> : d \in store} = {<<d._id, d.publishedData>> : d \in pre}
        /\ ctx.status # 200 => store = pre
        /\ ctx.status = 200 =>
             \E old \in pre :
                LET new == ctx.body.post
                IN  /\ old._id = CastId(ctx.id)
                    /\ store = (pre \ {old}) \cup {new}
                    /\ DOMAIN new = DOMAIN old
                    /\ \A k \in DOMAIN old :
                          new[k] = IF k \in DOMAIN ctx.reqBody
                                   THEN Given(ctx.reqBody, k) ELSE old[k]

\* An update of the title alone changed one of two posts.
UpdateTitleReached ==
    /\ ctx.op = "update"
    /\ ctx.status = 200
    /\ DOMAIN ctx.reqBody = {"title"}
    /\ store # pre
    /\ Cardinality(store) >= 2

\* The ObjectIds a remove has answered 204 for.
RemovedIds == {p[1] : p \in removed}
\* Those of them a post had, or had had, when the remove answered.
RemovedPostIds == {p[1] : p \in {q \in removed : q[2]}}

\* C5: a remove of an ObjectId is answered 204 with no body whether a post
\* has it or not, and leaves the store without that post and otherwise as
\* it was; no post ever has an id a remove has answered 204 for, and a read
\* of such an id is answered 404.
RemoveIdempotent ==
    /\ (ctx.op = "remove" /\ isValid(ctx.id) /\ ctx.storeError = NoError) =>
          /\ ctx.status = 204
          /\ ctx.body = NoBody
          /\ store = {d \in pre : d._id # CastId(ctx.id)}
    /\ (ctx.op = "read" /\ isValid(ctx.id) /\ ctx.storeError = NoError
            /\ CastId(ctx.id) \in RemovedIds) =>
          ctx.status = 404
    /\ Ids(store) \cap RemovedIds = {}

\* C5, amended: as C5, for the ids of posts: no post ever has again an id
\* that a post had when a remove answered 204 for it, and a read of such an
\* id is answered 404.
RemovedPostStaysRemoved ==
    /\ (ctx.op = "remove" /\ isValid(ctx.id) /\ ctx.storeError = NoError) =>
          /\ ctx.status = 204
          /\ ctx.body = NoBody
          /\ store = {d \in pre : d._id # CastId(ctx.id)}
    /\ (ctx.op = "read" /\ isValid(ctx.id) /\ ctx.storeError = NoError
            /\ CastId(ctx.id) \in RemovedPostIds) =>
          ctx.status = 404
    /\ Ids(store) \cap RemovedPostIds = {}

\* A post was removed, another written, and a read of the removed id was
\* answered 404.
ReadAfterRemoveReached ==
    /\ ctx.op = "read"
    /\ ctx.status = 404
    /\ isValid(ctx.id)
    /\ CastId(ctx.id) \in RemovedPostIds
    /\ store # {}

\* C6: a list of a page below 1 is answered 400 with no body and no store
\* call; a list of page p >= 1 (1 when the request names none) is answered
\* 200 with at most PageSize posts, those at the places (p - 1) * PageSize
\* onward of the posts found, the greatest _id first, and with Last-Page the
\* least k with k * PageSize >= the number of posts counted.
ListPages ==
    ctx.op = "list" =>
        IF PageAsked < 1
        THEN /\ ctx.status = 400
             /\ ctx.body = NoBody
             /\ ctx.headers = EmptyObj
             /\ ctx.storeCalls = 0
        ELSE ctx.storeError = NoError =>
             /\ ctx.status = 200
             /\ ctx.body.kind = "posts"
             /\ LET ps == ctx.body.posts
                    first == (PageAsked - 1) * PageSize
                    left == Cardinality(atFind) - first
                IN  /\ Len(ps) <= PageSize
                    /\ Len(ps) = (IF left < 0 THEN 0 ELSE IF left > PageSize THEN PageSize ELSE left)
                    /\ \A i \in 1..Len(ps) :
                          \E d \in atFind :
                             /\ [ps[i] EXCEPT !.body = d.body] = d
                             /\ Cardinality({e \in atFind : IdLess(d._id, e._id)}) = first + i - 1
             /\ ctx.headers = [LastPage |-> PagesOf(Cardinality(store))]

\* Page 2 of eleven or more posts was listed: the posts past the first ten.
SecondPageReached ==
    /\ ctx.op = "list"
    /\ ctx.status = 200
    /\ PageAsked = 2
    /\ Len(ctx.body.posts) \in 1..(PageSize - 1)
    /\ ctx.headers.LastPage = 2

\* C7: a list replaces the body of a post by its first BodyLimit characters
\* and "..." when the stored body is longer than BodyLimit, and returns it
\* as stored otherwise; the stored posts stay as they were.
ListTruncatesLonger ==
    (ctx.op = "list" /\ ctx.status = 200) =>
        /\ store = pre
        /\ \A i \in 1..Len(ctx.body.posts) :
              \E d \in atFind :
                 /\ d._id = ctx.body.posts[i]._id
                 /\ ctx.body.posts[i].body =
                       IF Len(d.body) > BodyLimit
                       THEN SubSeq(d.body, 1, BodyLimit) \o <<".", ".", ".">>
                       ELSE d.body

\* C8: a read of the id of a stored post is answered 200 with that post as
\* the store holds it (id, title, body, tags), and leaves the store as it
\* was, so that the same read again has the same answer.
ReadReturnsStored ==
    (/\ ctx.op = "read"
     /\ isValid(ctx.id)
     /\ ctx.storeError = NoError
     /\ CastId(ctx.id) \in Ids(pre)) =>
        /\ ctx.status = 200
        /\ store = pre
        /\ \E d \in store : d._id = CastId(ctx.id) /\ ctx.body = PostBody(d)

\* A post whose body an update made longer than BodyLimit was read.
ReadUpdatedReached ==
    /\ ctx.op = "read"
    /\ ctx.status = 200
    /\ Len(ctx.body.post.body) > BodyLimit
    /\ ctx.body.post.publishedData = 0

\* C9: a read, or an update with a body of well-typed title, body and tags,
\* of an ObjectId no post has is answered 404 with no body, and the store
\* holds what it held.
NotFoundLeavesStore ==
    (/\ ctx.op \in {"read", "update"}
     /\ isValid(ctx.id)
     /\ CastId(ctx.id) \notin Ids(pre)
     /\ ctx.storeError = NoError
     /\ ctx.op = "update" => WellTypedPartial(ctx.reqBody)) =>
        /\ ctx.status = 404
        /\ ctx.body = NoBody
        /\ store = pre

\* An update that names a field was answered 404 for an ObjectId no post has.
UpdateAbsentReached ==
    /\ ctx.op = "update"
    /\ ctx.status = 404
    /\ DOMAIN ctx.reqBody # {}
    /\ isValid(ctx.id)
    /\ store # {}

====
